---- MODULE Spec2Model ----
(***************************************************************************)
(* Model of src/app.py: the per-URL keyword pipeline (analyze_single_url), *)
(* the /analyze handler with its comparison stage, and the daily usage     *)
(* quota kept in the user's Firestore document (check_auth_and_usage and   *)
(* the counter update at the top of analyze).                              *)
(*                                                                         *)
(* Three specifications share the definitions below:                       *)
(*   SpecSingle  one call of analyze_single_url on a page drawn from        *)
(*               bounded sets                                              *)
(*   Spec        one POST /analyze request, URL by URL, then comparison    *)
(*   SpecQuota   concurrent /analyze requests of one user over UTC days    *)
(*                                                                         *)
(* What the libraries hand back (the exception requests.get raises, the    *)
(* HTTP status, the length of the cleaned text, langdetect's code, the     *)
(* vectorizer's feature list) is the input of the model, a "page".         *)
(* Scores are fixed-point numbers in units of 10^-5; rounded scores are in *)
(* units of 10^-4.                                                         *)
(***************************************************************************)
EXTENDS Integers, Sequences, FiniteSets, TLC

VARIABLES
    \* --- SpecSingle: analyze_single_url on its own
    page,            \* what the outside world serves for the URL being analysed
    result,          \* what analyze_single_url returned for it
    spc,             \* "call" (about to run) | "returned"
    \* --- Spec: one /analyze request
    urls,            \* request.json['urls']
    pages,           \* what was served for each URL processed so far (ghost)
    pc,              \* "idle" | "begin" | "loop" | "done" | "rejected"
    idx,             \* position of the for loop over urls (1-based)
    individual_results,
    all_keywords_for_comparison,
    common_keywords,
    unique_keywords_per_url,
    fetches,         \* number of requests.get calls made for each index (ghost)
    response,        \* the response: status code (0 while running) and body
    \* --- SpecQuota (db and user_data are also used by Spec)
    db,              \* the user's document in the 'users' collection
    user_data,       \* request.user_data of the request of Spec
    today,           \* the current UTC day
    reqs,            \* per request: position and the user_data it carries
    passed           \* requests of a user who is not premium that passed the
                     \* check and were analysed, both on the current day (ghost)

vars == <<page, result, spc, urls, pages, pc, idx, individual_results,
          all_keywords_for_comparison, common_keywords, unique_keywords_per_url,
          fetches, response, db, user_data, today, reqs, passed>>

singleVars == <<page, result, spc>>
analyzeVars == <<urls, pages, pc, idx, individual_results,
                 all_keywords_for_comparison, common_keywords, unique_keywords_per_url,
                 fetches, response, user_data>>
quotaVars == <<today, reqs, passed>>

-----------------------------------------------------------------------------
\* Bounds of the model

MaxFeatures == 22     \* longest feature list the vectorizer returns in SpecSingle
SeedLen == 3          \* period of the score pattern of a feature list
MaxUrls == 3          \* longest 'urls' list of a request
MaxDay == 2           \* last UTC day
MaxPassed == 7        \* cap on the ghost counter of analyses per day

-----------------------------------------------------------------------------
\* Program constants

MAX_FREE_ANALYSES_PER_DAY == 5
TopN == 20
LangMinLen == 50
MinErrorStatus == 400
EndErrorStatus == 600

-----------------------------------------------------------------------------
\* Formatting of integers inside f-strings

Digit == <<"0", "1", "2", "3", "4", "5", "6", "7", "8", "9">>

RECURSIVE Str(_)
Str(n) == IF n < 10 THEN Digit[n + 1]
          ELSE Str(n \div 10) \o Digit[(n % 10) + 1]

Min(a, b) == IF a <= b THEN a ELSE b

-----------------------------------------------------------------------------
\* The exception classes analyze_single_url tells apart, with their base
\* classes (requests.exceptions: ConnectTimeout derives from both
\* ConnectionError and Timeout).

Bases(exc) ==
    CASE exc = "ReadTimeout"      -> {"ReadTimeout", "Timeout", "RequestException", "Exception"}
      [] exc = "ConnectTimeout"   -> {"ConnectTimeout", "ConnectionError", "Timeout",
                                      "RequestException", "Exception"}
      [] exc = "ConnectionError"  -> {"ConnectionError", "RequestException", "Exception"}
      [] exc = "SSLError"         -> {"SSLError", "ConnectionError", "RequestException",
                                      "Exception"}
      [] exc = "HTTPError"        -> {"HTTPError", "RequestException", "Exception"}
      [] exc = "TooManyRedirects" -> {"TooManyRedirects", "RequestException", "Exception"}
      [] exc = "MissingSchema"    -> {"MissingSchema", "RequestException", "ValueError",
                                      "Exception"}
      [] exc = "LookupError"      -> {"LookupError", "Exception"}
      [] exc = "ValueError"       -> {"ValueError", "Exception"}

\* Variant: the ConnectionError clause ahead of the Timeout clause.
HandlersConnectionFirst ==
    <<"ConnectionError", "Timeout", "HTTPError", "RequestException", "Exception">>

\* The except clauses in source order.
Handlers ==
    <<"Timeout", "ConnectionError", "HTTPError", "RequestException", "Exception">>

\* The clause that catches exc: the first one naming a base class of it.
Handler(exc) ==
    LET k == CHOOSE i \in 1..Len(Handlers) :
                 /\ Handlers[i] \in Bases(exc)
                 /\ \A j \in 1..(i - 1) : Handlers[j] \notin Bases(exc)
    IN Handlers[k]

\* response.raise_for_status()
raise_for_status(status) == status >= MinErrorStatus /\ status < EndErrorStatus

\* str(e) of the HTTPError raise_for_status raises (the reason phrase left out)
HTTPErrorStr(url, status) ==
    Str(status)
    \o (IF status < 500 THEN " Client Error" ELSE " Server Error")
    \o " for url: " \o url

MsgTimeout == "Tempo limite excedido ao acessar a URL. O site pode estar lento ou inacessivel."
MsgConnection == "Nao foi possivel conectar a URL. Verifique sua conexao ou se o site esta online."
MsgNetwork == "Ocorreu um erro de rede inesperado ao acessar a URL. Verifique a URL e sua conexao."
MsgInsufficient == "Conteudo textual insuficiente para analise."
MsgNoKeywords == "Nao foi possivel extrair palavras-chave relevantes suficientes."
MsgInternal(e) == "Ocorreu um erro interno no servidor: " \o e

MsgHTTP(url, status_code) ==
    IF status_code = 404
    THEN "URL nao encontrada (Erro " \o Str(status_code)
         \o "). Verifique se o endereco esta correto."
    ELSE IF status_code = 403
    THEN "Acesso negado (Erro " \o Str(status_code)
         \o "). O site pode estar bloqueando a analise."
    ELSE IF status_code = 500
    THEN "Erro interno do servidor (Erro " \o Str(status_code)
         \o ") ao acessar a URL. Tente novamente mais tarde."
    ELSE "Erro HTTP " \o Str(status_code) \o " ao acessar a URL. Detalhes: "
         \o HTTPErrorStr(url, status_code)

\* The message of the except clause that catches exc.
ExceptMessage(url, exc, status) ==
    LET h == Handler(exc) IN
    CASE h = "Timeout"          -> MsgTimeout
      [] h = "ConnectionError"  -> MsgConnection
      [] h = "HTTPError"        -> MsgHTTP(url, status)
      [] h = "RequestException" -> MsgNetwork
      [] h = "Exception"        -> MsgInternal(exc)

-----------------------------------------------------------------------------
\* Language detection

\* Variant: detection from 50 characters on.
DetectAttemptedFrom50(textLen) == textLen >= LangMinLen

\* Whether detect(text) is called for a cleaned text of this length.
DetectAttempted(textLen) == textLen > LangMinLen

\* detected_lang_code: detect's code, 'unknown' when it is not called or raises
DetectedLangCode(p) ==
    IF DetectAttempted(p.textLen)
    THEN (IF p.detect = "raise" THEN "unknown" ELSE p.detect)
    ELSE "unknown"

NltkLangName(code) ==
    CASE code = "pt" -> "portuguese"
      [] code = "en" -> "english"
      [] code = "es" -> "spanish"
      [] OTHER       -> "unknown"

-----------------------------------------------------------------------------
\* Ranking of the vectorizer's features

\* Variant: e goes ahead of the entries of equal score.
RECURSIVE InsertDescTiesFirst(_, _)
InsertDescTiesFirst(s, e) ==
    IF s = <<>> THEN <<e>>
    ELSE IF Head(s).score > e.score
         THEN <<Head(s)>> \o InsertDescTiesFirst(Tail(s), e)
         ELSE <<e>> \o s

\* e goes after every entry whose score is at least its own: sorted() is
\* stable, also with reverse=True.
RECURSIVE InsertDesc(_, _)
InsertDesc(s, e) ==
    IF s = <<>> THEN <<e>>
    ELSE IF Head(s).score >= e.score
         THEN <<Head(s)>> \o InsertDesc(Tail(s), e)
         ELSE <<e>> \o s

RECURSIVE SortedDescFrom(_, _)
SortedDescFrom(acc, rest) ==
    IF rest = <<>> THEN acc
    ELSE SortedDescFrom(InsertDesc(acc, Head(rest)), Tail(rest))

\* sorted(word_tfidf_scores, key=lambda x: x[1], reverse=True)
SortedDesc(s) == SortedDescFrom(<<>>, s)

\* round(score, 4): to the nearest multiple of 10^-4, halves to the even one
Round4(score) ==
    LET q == score \div 10
        r == score % 10
    IN IF r < 5 THEN q
       ELSE IF r > 5 THEN q + 1
       ELSE IF q % 2 = 0 THEN q ELSE q + 1

TopKeywords(features) ==
    LET ranked == SortedDesc(features)
    IN SubSeq(ranked, 1, Min(TopN, Len(ranked)))

TopKeywordsFormatted(top) ==
    [k \in 1..Len(top) |-> [term |-> top[k].term, score |-> Round4(top[k].score)]]

-----------------------------------------------------------------------------
\* analyze_single_url

\* The returned pair (error, data) as one record; detect_called and gets
\* (calls of detect and of requests.get made) are ghost fields.
Failure(msg, called, gets) ==
    [ok |-> FALSE, message |-> msg, detect_called |-> called, gets |-> gets]

\* The fetch went through: requests.get returned and the status is no error.
Fetched(p) == p.get = "none" /\ ~raise_for_status(p.status)

analyze_single_url(url, p) ==
    IF p.get # "none"
    THEN Failure(ExceptMessage(url, p.get, 0), FALSE, 1)
    ELSE IF raise_for_status(p.status)
    THEN Failure(ExceptMessage(url, "HTTPError", p.status), FALSE, 1)
    ELSE
      LET called == DetectAttempted(p.textLen)
          code == DetectedLangCode(p)
          nltk_lang_name == NltkLangName(code)
      IN IF p.tokenize # "ok"
         THEN Failure(ExceptMessage(url, p.tokenize, 0), called, 1)
         ELSE IF p.filtered = 0
         THEN Failure(MsgInsufficient, called, 1)
         ELSE IF p.vectorizer # "ok"
         THEN Failure(ExceptMessage(url, p.vectorizer, 0), called, 1)
         ELSE LET top_keywords == TopKeywords(p.features)
              IN IF top_keywords = <<>>
                 THEN Failure(MsgNoKeywords, called, 1)
                 ELSE [ok |-> TRUE,
                       keywords |-> TopKeywordsFormatted(top_keywords),
                       detected_language |-> nltk_lang_name,
                       detect_called |-> called,
                       gets |-> 1]

-----------------------------------------------------------------------------
\* SpecSingle: the pages analyze_single_url is run on

SingleUrl == "u1"

GetOutcomes == {"none", "ReadTimeout", "ConnectTimeout", "ConnectionError", "SSLError",
                "TooManyRedirects", "MissingSchema", "ValueError"}
Statuses == {200, 204, 400, 403, 404, 500, 503, 599}
TextLens == {0, LangMinLen - 1, LangMinLen, LangMinLen + 1, 2 * LangMinLen}
DetectOutcomes == {"pt", "en", "es", "fr", "raise"}
ScoreVals == {0, 15, 25, 26}

\* A feature list of n terms whose scores repeat the pattern seed.
MkFeatures(n, seed) ==
    [i \in 1..n |-> [term |-> "w" \o Str(i), score |-> seed[((i - 1) % SeedLen) + 1]]]

FeatureLists ==
    {MkFeatures(n, seed) : n \in 0..MaxFeatures, seed \in [1..SeedLen -> ScoreVals]}

BasePage ==
    [get |-> "none", status |-> 200, textLen |-> 2 * LangMinLen, detect |-> "en",
     tokenize |-> "ok", filtered |-> 3, vectorizer |-> "ok",
     features |-> MkFeatures(2, [i \in 1..SeedLen |-> 25])]

FetchPages ==
    {[BasePage EXCEPT !.get = g, !.status = 0] : g \in GetOutcomes \ {"none"}}
    \cup {[BasePage EXCEPT !.status = st] : st \in Statuses}

LanguagePages ==
    {[BasePage EXCEPT !.textLen = n, !.detect = d, !.tokenize = t,
                      !.filtered = IF n = 0 THEN 0 ELSE f] :
        n \in TextLens, d \in DetectOutcomes, t \in {"ok", "LookupError"},
        f \in {0, 3}}

ScoringPages ==
    {[BasePage EXCEPT !.features = fs] : fs \in FeatureLists}
    \cup {[BasePage EXCEPT !.vectorizer = "ValueError", !.features = <<>>]}

SinglePages == FetchPages \cup LanguagePages \cup ScoringPages

InitOther ==
    /\ urls = <<>>
    /\ pages = <<>>
    /\ pc = "idle"
    /\ idx = 1
    /\ individual_results = <<>>
    /\ all_keywords_for_comparison = <<>>
    /\ common_keywords = {}
    /\ unique_keywords_per_url = <<>>
    /\ fetches = <<>>
    /\ response = [status |-> 0]

NoResult == [ok |-> FALSE, message |-> "", detect_called |-> FALSE, gets |-> 0]

InitSingle ==
    /\ page \in SinglePages
    /\ result = NoResult
    /\ spc = "call"
    /\ InitOther
    /\ db = [exists |-> FALSE]
    /\ user_data = [is_premium |-> FALSE]
    /\ today = 0
    /\ reqs = <<>>
    /\ passed = 0

\* One call of analyze_single_url.
Call ==
    /\ spc = "call"
    /\ result' = analyze_single_url(SingleUrl, page)
    /\ spc' = "returned"
    /\ UNCHANGED page
    /\ UNCHANGED <<analyzeVars, quotaVars, db>>

NextSingle == Call

SpecSingle == InitSingle /\ [][NextSingle]_vars

-----------------------------------------------------------------------------
\* Properties of analyze_single_url (SpecSingle)

Returned == spc = "returned"

\* The rest of the pipeline has what it needs to produce keywords.
ContentSuffices(p) ==
    /\ Fetched(p)
    /\ p.tokenize = "ok"
    /\ p.filtered > 0
    /\ p.vectorizer = "ok"
    /\ p.features # <<>>

\* C6 as stated: language detection is skipped exactly when the cleaned text
\* is shorter than 50 characters, and run for every text of 50 or more.
C6_SkippedExactlyBelow50 ==
    (Returned /\ Fetched(page)) => (result.detect_called <=> page.textLen >= 50)

\* C6 amended: detection is skipped, and the tag is 'unknown', exactly when
\* the cleaned text has at most 50 characters; for every text of 51 or more
\* characters the detector is run and its code is mapped pt -> portuguese,
\* en -> english, es -> spanish, any other code or a detector exception ->
\* 'unknown'. A detector exception never makes the URL's result an error.
C6_SkippedExactlyUpTo50 ==
    (Returned /\ Fetched(page)) =>
        /\ result.detect_called <=> page.textLen >= 51
        /\ ContentSuffices(page) => result.ok
        /\ result.ok =>
              result.detected_language =
                  IF page.textLen <= 50 THEN "unknown"
                  ELSE CASE page.detect = "pt" -> "portuguese"
                         [] page.detect = "en" -> "english"
                         [] page.detect = "es" -> "spanish"
                         [] OTHER -> "unknown"

\* A text of exactly 50 characters that the detector would call portuguese
\* is analysed without the detector and tagged 'unknown'.
C6_Witness ==
    /\ Returned
    /\ Fetched(page)
    /\ page.textLen = 50
    /\ page.detect = "pt"
    /\ ~result.detect_called
    /\ result.ok
    /\ result.detected_language = "unknown"

\* Position of a term in the vectorizer's feature list of the page.
OrigPos(term) == CHOOSE i \in 1..Len(page.features) : page.features[i].term = term
OrigScore(term) == page.features[OrigPos(term)].score

\* C8: a successful result holds between 1 and 20 keywords, with
\* non-negative scores that never increase along the list, before and after
\* rounding to 4 decimals; entries of equal score keep the vectorizer's order.
C8_TopKeywordsRanked ==
    (Returned /\ result.ok) =>
        LET kw == result.keywords IN
        /\ Len(kw) >= 1
        /\ Len(kw) <= 20
        /\ Len(kw) = Min(20, Len(page.features))
        /\ \A k \in 1..Len(kw) : kw[k].score >= 0
        /\ \A a, b \in 1..Len(kw) :
              a < b =>
                /\ kw[a].score >= kw[b].score
                /\ OrigScore(kw[a].term) >= OrigScore(kw[b].term)
                /\ OrigScore(kw[a].term) = OrigScore(kw[b].term)
                      => OrigPos(kw[a].term) < OrigPos(kw[b].term)

\* More than 20 features, cut to 20, with a tie and a strict descent among
\* them, and two different scores that round to the same value.
C8_Witness ==
    /\ Returned
    /\ result.ok
    /\ Len(page.features) > 20
    /\ Len(result.keywords) = 20
    /\ \E a, b \in 1..20 :
          /\ a < b
          /\ OrigScore(result.keywords[a].term) = OrigScore(result.keywords[b].term)
    /\ \E a, b \in 1..20 :
          /\ result.keywords[a].score > result.keywords[b].score
    /\ \E a, b \in 1..20 :
          /\ OrigScore(result.keywords[a].term) > OrigScore(result.keywords[b].term)
          /\ result.keywords[a].score = result.keywords[b].score

-----------------------------------------------------------------------------
\* The /analyze handler

\* The counter update at the top of analyze: for a user who is not premium
\* the count read by the before-request check, plus one, is written back.
UsageUpdate(ud, doc, now) ==
    IF ~ud.is_premium
    THEN [doc EXCEPT !.analysis_count_today = ud.analysis_count_today + 1,
                     !.last_analysis_date = now]
    ELSE doc

RemainingAnalyses(ud) == MAX_FREE_ANALYSES_PER_DAY - (ud.analysis_count_today + 1)

\* set(k[0] for k in analysis_data["keywords"])
TermSet(keywords) == {keywords[k].term : k \in 1..Len(keywords)}

\* The entry appended to individual_results for one URL.
IndividualResult(url, r) ==
    IF ~r.ok
    THEN [url |-> url, status |-> "error", message |-> r.message]
    ELSE [url |-> url, status |-> "success", top_keywords |-> r.keywords,
          detected_language |-> r.detected_language]

\* Variant: error entries are put in front.
ResultsAfterErrorsFirst(results, url, r) ==
    IF r.ok THEN Append(results, IndividualResult(url, r))
    ELSE <<IndividualResult(url, r)>> \o results

\* individual_results after one URL: the entry goes to the end.
ResultsAfter(results, url, r) == Append(results, IndividualResult(url, r))

\* Variant: a set is appended for an error too.
KeywordSetsAfterAlways(sets, r) ==
    Append(sets, IF r.ok THEN TermSet(r.keywords) ELSE {})

\* all_keywords_for_comparison after one URL: a term set is appended for a
\* success only.
KeywordSetsAfter(sets, r) ==
    IF r.ok THEN Append(sets, TermSet(r.keywords)) ELSE sets

RECURSIVE IntersectFrom(_, _)
IntersectFrom(acc, rest) ==
    IF rest = <<>> THEN acc ELSE IntersectFrom(acc \cap Head(rest), Tail(rest))

\* Variant: only the first two sets are intersected.
CommonKeywordsFirstTwo(sets) ==
    IF sets = <<>> THEN {}
    ELSE IF Len(sets) > 1 THEN sets[1] \cap sets[2]
    ELSE sets[1]

\* common_keywords
CommonKeywords(sets) ==
    IF sets = <<>> THEN {}
    ELSE IF Len(sets) > 1 THEN IntersectFrom(Head(sets), Tail(sets))
    ELSE sets[1]

\* Variant: only the sets after set i are taken away.
RECURSIVE DifferenceUpdateLater(_, _, _, _)
DifferenceUpdateLater(cur, sets, i, j) ==
    IF j > Len(sets) THEN cur
    ELSE DifferenceUpdateLater(IF i < j THEN cur \ sets[j] ELSE cur, sets, i, j + 1)

\* unique_to_current for set i: difference_update with every other set, one
\* after the other, j running over the list.
RECURSIVE DifferenceUpdateFrom(_, _, _, _)
DifferenceUpdateFrom(cur, sets, i, j) ==
    IF j > Len(sets) THEN cur
    ELSE DifferenceUpdateFrom(IF i # j THEN cur \ sets[j] ELSE cur, sets, i, j + 1)

UniqueToCurrentLater(sets, i) == DifferenceUpdateLater(sets[i], sets, i, 1)

UniqueToCurrent(sets, i) == DifferenceUpdateFrom(sets[i], sets, i, 1)

\* unique_keywords_per_url: entry i is labelled urls_to_analyze[i], i being
\* the index into all_keywords_for_comparison.
UniqueKeywordsPerUrl(us, sets) ==
    [i \in 1..Len(sets) |-> [url |-> us[i], keywords |-> UniqueToCurrent(sets, i)]]

\* The pages served to the URLs of a request
Features(ts) == [i \in 1..Len(ts) |-> [term |-> ts[i][1], score |-> ts[i][2]]]

SuccessPages ==
    {[BasePage EXCEPT !.features = Features(<<<<"t1", 26>>, <<"t2", 25>>>>)],
     [BasePage EXCEPT !.features = Features(<<<<"t2", 25>>, <<"t3", 25>>>>),
                      !.detect = "pt"],
     [BasePage EXCEPT !.features = Features(<<<<"t3", 15>>>>),
                      !.textLen = LangMinLen]}

FailurePages ==
    {[BasePage EXCEPT !.get = g, !.status = 0] :
        g \in {"ReadTimeout", "ConnectTimeout", "ConnectionError", "TooManyRedirects"}}
    \cup {[BasePage EXCEPT !.status = st] : st \in {403, 404, 500, 503}}
    \cup {[BasePage EXCEPT !.tokenize = "LookupError"],
          [BasePage EXCEPT !.filtered = 0, !.textLen = 0]}

AnalyzePages == SuccessPages \cup FailurePages

Urls == {"u1", "u2"}

\* The 'urls' lists of the requests. URLs are names only, so a list starts
\* with u1; a later entry repeats it or not.
UrlLists ==
    UNION {{us \in [1..n -> Urls] : n > 0 => us[1] = "u1"} : n \in 0..MaxUrls}

Init ==
    /\ urls \in UrlLists
    /\ pages = <<>>
    /\ pc = "begin"
    /\ idx = 1
    /\ individual_results = <<>>
    /\ all_keywords_for_comparison = <<>>
    /\ common_keywords = {}
    /\ unique_keywords_per_url = <<>>
    /\ fetches = <<>>
    /\ response = [status |-> 0]
    /\ \E prem \in BOOLEAN :
          /\ user_data = [is_premium |-> prem, analysis_count_today |-> 0,
                          last_analysis_date |-> 0]
          /\ db = [exists |-> TRUE, is_premium |-> prem, analysis_count_today |-> 0,
                   last_analysis_date |-> 0]
    /\ today = 0
    /\ reqs = <<>>
    /\ passed = 0
    /\ page = BasePage
    /\ result = NoResult
    /\ spc = "idle"

\* analyze up to the loop: the request is validated and the usage counter
\* of a user who is not premium is written.
AnalyzeBegin ==
    /\ pc = "begin"
    /\ IF urls = <<>>
       THEN /\ response' = [status |-> 400,
                            error |-> "Lista de URLs nao fornecida ou formato invalido."]
            /\ pc' = "rejected"
            /\ UNCHANGED db
       ELSE /\ db' = UsageUpdate(user_data, db, today)
            /\ pc' = "loop"
            /\ UNCHANGED response
    /\ UNCHANGED <<urls, pages, idx, individual_results, all_keywords_for_comparison,
                   common_keywords, unique_keywords_per_url, fetches, user_data>>
    /\ UNCHANGED <<singleVars, quotaVars>>

\* One pass of the loop over urls_to_analyze.
AnalyzeUrl ==
    /\ pc = "loop"
    /\ idx <= Len(urls)
    /\ \E p \in AnalyzePages :
          LET url_item == urls[idx]
              r == analyze_single_url(url_item, p)
          IN /\ individual_results' = ResultsAfter(individual_results, url_item, r)
             /\ all_keywords_for_comparison' =
                    KeywordSetsAfter(all_keywords_for_comparison, r)
             /\ fetches' = Append(fetches, r.gets)
             /\ pages' = Append(pages, p)
    /\ idx' = idx + 1
    /\ UNCHANGED <<urls, pc, common_keywords, unique_keywords_per_url, response,
                   user_data, db>>
    /\ UNCHANGED <<singleVars, quotaVars>>

\* After the loop: the comparison and the response.
AnalyzeCompare ==
    /\ pc = "loop"
    /\ idx > Len(urls)
    /\ common_keywords' = CommonKeywords(all_keywords_for_comparison)
    /\ unique_keywords_per_url' =
           IF all_keywords_for_comparison = <<>> THEN <<>>
           ELSE UniqueKeywordsPerUrl(urls, all_keywords_for_comparison)
    /\ response' =
           [status |-> 200,
            user_limit_info |->
                IF ~user_data.is_premium
                THEN [is_premium |-> FALSE,
                      remaining_analyses |-> RemainingAnalyses(user_data),
                      max_free_analyses |-> MAX_FREE_ANALYSES_PER_DAY]
                ELSE [is_premium |-> TRUE,
                      remaining_analyses |-> "Unlimited",
                      max_free_analyses |-> "Unlimited"]]
    /\ pc' = "done"
    /\ UNCHANGED <<urls, pages, idx, individual_results, all_keywords_for_comparison,
                   fetches, user_data, db>>
    /\ UNCHANGED <<singleVars, quotaVars>>

Next == AnalyzeBegin \/ AnalyzeUrl \/ AnalyzeCompare

Spec == Init /\ [][Next]_vars

-----------------------------------------------------------------------------
\* Properties of one /analyze request (Spec)

Done == pc = "done"

Successes == {k \in 1..Len(individual_results) : individual_results[k].status = "success"}

\* Term set of the k-th individual result, a success.
ResultTerms(k) ==
    {individual_results[k].top_keywords[n].term :
        n \in 1..Len(individual_results[k].top_keywords)}

\* Index into individual_results of the n-th success.
NthSuccess(n) ==
    CHOOSE k \in Successes : Cardinality({j \in Successes : j <= k}) = n

\* C1: for a non-empty 'urls', whatever each URL's outcome, individual_results
\* ends with exactly len(urls) entries and the k-th entry's url is urls[k].
C1_OneResultPerUrlInOrder ==
    /\ Done =>
          /\ urls # <<>>
          /\ Len(individual_results) = Len(urls)
          /\ \A k \in 1..Len(urls) : individual_results[k].url = urls[k]
    /\ pc = "loop" =>
          /\ Len(individual_results) = idx - 1
          /\ \A k \in 1..Len(individual_results) : individual_results[k].url = urls[k]

\* A request that names the same URL twice, once failing and once not, and a
\* second URL.
C1_Witness ==
    /\ Done
    /\ Len(urls) = 3
    /\ urls[1] = urls[3]
    /\ urls[2] # urls[1]
    /\ individual_results[1].status = "error"
    /\ individual_results[3].status = "success"
    /\ Len(individual_results) = 3

\* C2: every entry of unique_keywords_per_url carries the URL of a
\* successfully analysed result, and its keywords are among that result's
\* top_keywords terms, also when an earlier URL failed and a later succeeded.
C2_UniqueEntriesPairedWithTheirUrl ==
    Done =>
        \A n \in 1..Len(unique_keywords_per_url) :
            \E k \in Successes :
                /\ individual_results[k].url = unique_keywords_per_url[n].url
                /\ unique_keywords_per_url[n].keywords \subseteq ResultTerms(k)

\* C3: common_keywords is the intersection of the term sets of the successful
\* results: empty, with no unique entries, when nothing succeeded; the one
\* set when one URL succeeded; a subset of every successful result's terms.
C3_CommonIsIntersection ==
    Done =>
        /\ Successes = {} => (common_keywords = {} /\ unique_keywords_per_url = <<>>)
        /\ Successes # {} =>
              common_keywords =
                  {t \in UNION {ResultTerms(k) : k \in Successes} :
                      \A k \in Successes : t \in ResultTerms(k)}
        /\ \A k \in Successes :
              /\ common_keywords \subseteq ResultTerms(k)
              /\ Cardinality(Successes) = 1 => common_keywords = ResultTerms(k)

\* Three successes whose first two share a term the third lacks.
C3_Witness ==
    /\ Done
    /\ Cardinality(Successes) = 3
    /\ common_keywords = {}
    /\ \E a, b \in Successes : a # b /\ ResultTerms(a) \cap ResultTerms(b) # {}

\* C4: unique_keywords_per_url has one entry per success, in success order;
\* the n-th entry's keywords are the n-th successful term set minus the
\* union of all other successful term sets.
C4_UniqueIsOwnMinusOthers ==
    Done =>
        /\ Len(unique_keywords_per_url) = Cardinality(Successes)
        /\ \A n \in 1..Len(unique_keywords_per_url) :
              LET k == NthSuccess(n)
                  others == UNION {ResultTerms(j) : j \in Successes \ {k}}
                  kws == unique_keywords_per_url[n].keywords
              IN /\ kws = ResultTerms(k) \ others
                 /\ kws \subseteq ResultTerms(k)
                 /\ \A j \in Successes \ {k} : kws \cap ResultTerms(j) = {}
                 /\ (\A j \in Successes \ {k} : ResultTerms(j) \cap ResultTerms(k) = {})
                       => kws = ResultTerms(k)

\* Three successes: two with the same term set, whose unique sets are empty,
\* before a third that shares a term with them and keeps another.
C4_Witness ==
    /\ Done
    /\ Cardinality(Successes) = 3
    /\ Len(unique_keywords_per_url) = 3
    /\ all_keywords_for_comparison[1] = all_keywords_for_comparison[2]
    /\ unique_keywords_per_url[1].keywords = {}
    /\ unique_keywords_per_url[2].keywords = {}
    /\ unique_keywords_per_url[3].keywords # {}
    /\ unique_keywords_per_url[3].keywords # all_keywords_for_comparison[3]

\* C5: a failure of any kind for one URL becomes exactly one 'error' result
\* for it; every later URL is still processed, each URL is fetched once,
\* and only the successes' term sets reach the comparison.
C5_FailureIsOneErrorResult ==
    /\ \A k \in 1..Len(pages) :
          /\ fetches[k] = 1
          /\ ~ContentSuffices(pages[k]) <=> individual_results[k].status = "error"
    /\ Len(individual_results) = Len(pages)
    /\ Len(all_keywords_for_comparison) = Cardinality(Successes)
    /\ \A n \in 1..Len(all_keywords_for_comparison) :
          all_keywords_for_comparison[n] = ResultTerms(NthSuccess(n))
    /\ Done =>
          /\ Len(pages) = Len(urls)
          /\ Len(unique_keywords_per_url) = Cardinality(Successes)
          /\ common_keywords \subseteq UNION {ResultTerms(k) : k \in Successes}

\* A failure first, then two successes: the later URLs were analysed and
\* the comparison holds the two successes only.
C5_Witness ==
    /\ Done
    /\ Len(urls) = 3
    /\ ~ContentSuffices(pages[1])
    /\ individual_results[1].status = "error"
    /\ Successes = {2, 3}
    /\ Len(all_keywords_for_comparison) = 2
    /\ fetches = <<1, 1, 1>>

StartsWith(str, prefix) ==
    Len(str) >= Len(prefix) /\ SubSeq(str, 1, Len(prefix)) = prefix

\* The failure kinds of C7, read off the page.
FailureKind(p) ==
    CASE p.get \in {"ReadTimeout", "ConnectTimeout"}     -> "timeout"
      [] p.get \in {"ConnectionError", "SSLError"}       -> "connection"
      [] p.get \in {"TooManyRedirects", "MissingSchema"} -> "network"
      [] p.get = "none" /\ p.status = 404               -> "http404"
      [] p.get = "none" /\ p.status = 403               -> "http403"
      [] p.get = "none" /\ p.status = 500               -> "http500"
      [] p.get = "none" /\ p.status >= 400              -> "http"
      [] p.get = "none" /\ p.tokenize # "ok"            -> "internal"
      [] OTHER                                          -> "none"

\* C7: each failure kind has its own message, chosen by the first matching
\* handler: a timeout (a connect timeout included) the timeout message, a
\* connection failure the connection message, an HTTP status >= 400 an HTTP
\* message carrying the status code (404, 403 and 500 apart from the generic
\* one), another network failure the network message, anything else the
\* internal-error message; no two kinds share a message.
C7_MessagePerFailureKind ==
    /\ \A k \in 1..Len(pages) :
          LET kind == FailureKind(pages[k])
              msg == individual_results[k].message
          IN kind # "none" =>
               /\ individual_results[k].status = "error"
               /\ kind = "timeout" => msg = MsgTimeout
               /\ kind = "connection" => msg = MsgConnection
               /\ kind = "network" => msg = MsgNetwork
               /\ kind = "http404" =>
                     msg = "URL nao encontrada (Erro 404). Verifique se o endereco esta correto."
               /\ kind = "http403" =>
                     msg = "Acesso negado (Erro 403). O site pode estar bloqueando a analise."
               /\ kind = "http500" =>
                     msg = "Erro interno do servidor (Erro 500) ao acessar a URL. Tente novamente mais tarde."
               /\ kind = "http" =>
                     StartsWith(msg, "Erro HTTP " \o Str(pages[k].status)
                                     \o " ao acessar a URL.")
               /\ kind = "internal" =>
                     StartsWith(msg, "Ocorreu um erro interno no servidor: ")
    /\ \A k, l \in 1..Len(pages) :
          (/\ k < l
           /\ individual_results[k].status = "error"
           /\ individual_results[l].status = "error"
           /\ individual_results[k].message = individual_results[l].message)
            => \/ FailureKind(pages[k]) = FailureKind(pages[l])
               \/ FailureKind(pages[k]) = "none"
               \/ FailureKind(pages[l]) = "none"

\* One request meets a connect timeout, a 403 and a 503.
C7_Witness ==
    /\ Done
    /\ Len(pages) = 3
    /\ pages[1].get = "ConnectTimeout"
    /\ individual_results[1].message = MsgTimeout
    /\ FailureKind(pages[2]) = "http403"
    /\ FailureKind(pages[3]) = "http"
    /\ individual_results[2].message # individual_results[3].message

-----------------------------------------------------------------------------
\* SpecQuota: the daily quota of one user under concurrent /analyze requests

NumRequests == 2

Requests == 1..NumRequests

NoUserData == [is_premium |-> FALSE, analysis_count_today |-> 0, last_analysis_date |-> 0]

\* reset (the check found a new day) and day (the day of the check) are
\* ghost fields.
NewRequest == [pc |-> "new", reset |-> FALSE, day |-> 0, user_data |-> NoUserData]

\* The document signup writes, and the one the check writes for a user
\* who has none.
DefaultDoc(now) ==
    [exists |-> TRUE, is_premium |-> FALSE, analysis_count_today |-> 0,
     last_analysis_date |-> now]

NoDoc ==
    [exists |-> FALSE, is_premium |-> FALSE, analysis_count_today |-> 0,
     last_analysis_date |-> 0]

InitQuota ==
    /\ today = 0
    /\ db \in {NoDoc, DefaultDoc(0), [DefaultDoc(0) EXCEPT !.is_premium = TRUE]}
    /\ reqs = [r \in Requests |-> NewRequest]
    /\ passed = 0
    /\ user_data = NoUserData
    /\ InitOther
    /\ page = BasePage
    /\ result = NoResult
    /\ spc = "idle"

\* user_data as check_auth_and_usage reads it: the stored fields, or the
\* defaults of the document it creates.
UserDataRead(doc, now) ==
    IF doc.exists
    THEN [is_premium |-> doc.is_premium,
          analysis_count_today |-> doc.analysis_count_today,
          last_analysis_date |-> doc.last_analysis_date]
    ELSE [is_premium |-> FALSE, analysis_count_today |-> 0, last_analysis_date |-> now]

\* The local analysis_count_today the limit is tested on: 0 on a new day.
NewDay(ud, now) == ud.last_analysis_date < now

CountChecked(ud, now) == IF NewDay(ud, now) THEN 0 ELSE ud.analysis_count_today

\* check_auth_and_usage for a POST /analyze with a valid token: the document
\* is read (created when missing), the stored count is reset on a new UTC
\* day, and the request is answered 429 or goes on to analyze carrying the
\* user_data read at the start.
CheckAuthAndUsage(r) ==
    /\ reqs[r].pc = "new"
    /\ passed < MaxPassed
    /\ LET doc == IF db.exists THEN db ELSE DefaultDoc(today)
           ud == UserDataRead(db, today)
           count == CountChecked(ud, today)
       IN /\ db' = IF NewDay(ud, today)
                   THEN [doc EXCEPT !.analysis_count_today = 0,
                                    !.last_analysis_date = today]
                   ELSE doc
          /\ IF ~ud.is_premium /\ count >= MAX_FREE_ANALYSES_PER_DAY
             THEN UNCHANGED reqs
             ELSE reqs' = [reqs EXCEPT ![r] = [pc |-> "checked",
                                               reset |-> NewDay(ud, today),
                                               day |-> today,
                                               user_data |-> ud]]
    /\ UNCHANGED <<today, passed>>
    /\ UNCHANGED <<singleVars, analyzeVars>>

\* analyze for a request the check let through: a request without a valid
\* 'urls' list is answered 400 before the counter is touched; otherwise the
\* counter is written and the URLs are analysed, which leaves the user's
\* document alone.
Analyze(r) ==
    /\ reqs[r].pc = "checked"
    /\ \E valid \in BOOLEAN :
          /\ db' = IF valid THEN UsageUpdate(reqs[r].user_data, db, today) ELSE db
          /\ passed' = IF valid /\ ~reqs[r].user_data.is_premium /\ reqs[r].day = today
                        THEN passed + 1
                        ELSE passed
    /\ reqs' = [reqs EXCEPT ![r] = NewRequest]
    /\ UNCHANGED today
    /\ UNCHANGED <<singleVars, analyzeVars>>

\* Midnight UTC.
NextDay ==
    /\ today < MaxDay
    /\ today' = today + 1
    /\ passed' = 0
    /\ UNCHANGED <<db, reqs>>
    /\ UNCHANGED <<singleVars, analyzeVars>>

NextQuota ==
    \/ \E r \in Requests : CheckAuthAndUsage(r)
    \/ \E r \in Requests : Analyze(r)
    \/ NextDay

SpecQuota == InitQuota /\ [][NextQuota]_vars

\* C9: however the requests of a user who is not premium interleave within
\* one UTC day, at most MAX_FREE_ANALYSES_PER_DAY (5) of them pass the check
\* and run the analysis.
C9_AtMostFivePassPerDay == passed <= 5

\* C10: the first accepted request of a new UTC day, once analysed, leaves
\* the stored analysis_count_today at 1 whatever the count of the day before.
C10_NewDayLeavesCountAtOne ==
    [][\A r \in Requests :
          (/\ reqs[r].pc = "checked"
           /\ reqs[r].reset
           /\ ~reqs[r].user_data.is_premium
           /\ reqs'[r].pc = "new"
           /\ db' # db)
            => db'.analysis_count_today = 1]_vars

====
